---- MODULE Spec2Model ----
(***************************************************************************)
(* The HAEgressGatewayPolicy controller of cilium-haegress-operator:       *)
(* Reconcile and its two drift steps (UpdateOrCreateCiliumEgressGateway-   *)
(* Policy, UpdateOrCreateService), the feedback synchroniser               *)
(* (SyncServiceWithCiliumEgressGatewayPolicy), the event router and the    *)
(* background sweeper (backgroundPeriodicalCheck), against a store with    *)
(* optimistic concurrency.  Every store call is one atomic step; the local *)
(* computation that follows a call belongs to the step of that call.       *)
(*                                                                         *)
(* A resource version is not a counter here: every copy a worker holds has *)
(* a flag that says whether the stored object is still the one that was    *)
(* read, and every write of the stored object clears the flag of the other *)
(* copies.  A conditional write succeeds exactly when its copy is fresh.   *)
(***************************************************************************)
EXTENDS Integers, Sequences, FiniteSets, TLC

\* ------------------------------------------------------------- bounds
MaxExternal == 1        \* writes of other writers (operator, other tools)
MaxFailures == 1        \* store calls that fail for a transient reason
MaxInterval == 3        \* largest --background-checker-seconds explored
MaxOwners == 2          \* longest owner-reference list handed to the router

\* ---------------------------------------------------------- constants
UnitsPerSecond == 2     \* the clock counts half seconds
NoMarker == -1          \* lastServiceUpdate holds no time.Time yet

Policies == {"p1", "p2"}
PolicyOrder == <<"p1", "p2">>
EgressNamespace == "egress-system"
AltNamespace == "alt"
Namespaces == {EgressNamespace, AltNamespace}
Keys == Namespaces \X Policies
NoKey == <<"", "">>
NodeNames == {"n1"}
Hosts == {"", "n1", "n2"}
Address == "a1"
SelectorValues == {"s1", "s2"}
PolicyKind == "HAEgressGatewayPolicy"
DriftWorkers == {"rec", "swp"}
Workers == {"rec", "swp", "svc"}

\* ------------------------------------------------------------ objects
OwnerRef(p) == [kind |-> PolicyKind, name |-> p, controller |-> TRUE]

NoPolicy ==
  [exists |-> FALSE, name |-> "", ann |-> "", sel |-> "", host |-> "", ip |-> "",
   addr |-> "", node |-> "", stamped |-> FALSE]

NewPolicy(p) ==
  [exists |-> TRUE, name |-> p, ann |-> "", sel |-> "s1", host |-> "", ip |-> "",
   addr |-> "", node |-> "", stamped |-> FALSE]

NoGP ==
  [exists |-> FALSE, namespace |-> "", owner |-> <<>>, sel |-> "", host |-> "",
   ip |-> ""]

NoService ==
  [exists |-> FALSE, namespace |-> "", owner |-> <<>>, selector |-> NoKey,
   host |-> "", ingress |-> <<>>]

NoResult == [requeue |-> FALSE, err |-> FALSE]

NoLocal ==
  [p |-> "", pol |-> NoPolicy, key |-> NoKey,
   ex |-> NoGP, exFresh |-> FALSE,
   service |-> NoService, arg |-> NoGP, argFresh |-> FALSE,
   spol |-> NoPolicy, polFresh |-> FALSE,
   up |-> NoGP, upFresh |-> FALSE,
   res |-> NoResult, sres |-> NoResult, todo |-> <<>>,
   failed |-> FALSE, quiet |-> FALSE, again |-> FALSE,
   sfailed |-> FALSE, squiet |-> FALSE, sagain |-> FALSE, insync |-> FALSE,
   conflict |-> FALSE, firstErr |-> FALSE,
   steps |-> {}, listed |-> {}, visited |-> {}, foreign |-> FALSE,
   missing |-> FALSE, missed |-> FALSE, tried |-> FALSE,
   marks |-> {}]

NoStep ==
  [w |-> "", op |-> "none", kind |-> "", key |-> NoKey, ok |-> TRUE,
   stale |-> FALSE, insync |-> FALSE, again |-> FALSE, sagain |-> FALSE,
   failed |-> FALSE, conflict |-> FALSE, err |-> FALSE, requeue |-> FALSE,
   age |-> NoMarker, stopping |-> FALSE, did |-> "",
   steps |-> {}, listed |-> {}, visited |-> {}, foreign |-> FALSE,
   missing |-> FALSE, owners |-> <<>>, namespace |-> "",
   requests |-> <<>>, missed |-> FALSE, tried |-> FALSE,
   host |-> "", policyHost |-> "", ingress |-> <<>>, before |-> FALSE,
   quiet |-> FALSE, marks |-> {}]

VARIABLES
  policy,    \* the stored Policies, by name
  gp,        \* the stored GatewayPolicies, by (target namespace, Policy name)
  svc,       \* the stored Services, by (namespace, name)
  events,    \* what the event recorder was given
  pc,        \* each worker's position
  loc,       \* each worker's local variables
  recQ,      \* pending reconcile requests of the Policy controller
  svcQ,      \* pending requests of the Services controller
  marker,    \* age of lastServiceUpdate in clock units, or NoMarker
  interval,  \* BackgroundCheckerSeconds
  ticker,    \* clock units since the ticker last fired, up to one interval
  phase,     \* "running", "stopping" (shutdown signal fired), "exited"
  used,      \* how much of MaxExternal and MaxFailures is spent
  last,      \* the store call of the last step
  clean,     \* per Policy: a drift run completed and the store is as it left it
  synced     \* per key: the Service state a sync completed for, store unchanged

vars ==
  <<policy, gp, svc, events, pc, loc, recQ, svcQ, marker, interval, ticker,
    phase, used, last, clean, synced>>

\* ------------------------------------------------- the code's functions
\* part_000:110-113 (and 197-200): the annotation overrides the default.
ServiceNamespace(pol) == IF pol.ann # "" THEN pol.ann ELSE EgressNamespace

DerivedKey(pol) == <<ServiceNamespace(pol), pol.name>>

\* part_000:115-129: name, Spec copied from the Policy, controller reference.
CiliumEgressGatewayPolicyNew(pol) ==
  [exists |-> TRUE, namespace |-> "", owner |-> <<OwnerRef(pol.name)>>,
   sel |-> pol.sel, host |-> pol.host, ip |-> pol.ip]

\* part_000:205-244: the Service the Policy asks for.
DesiredService(pol) ==
  [exists |-> TRUE, namespace |-> ServiceNamespace(pol),
   owner |-> <<OwnerRef(pol.name)>>,
   selector |-> <<ServiceNamespace(pol), pol.name>>, host |-> "",
   ingress |-> <<>>]

\* metav1.IsControlledBy: a controller reference that names the Policy.
IsControlledBy(obj, p) ==
  \E i \in 1..Len(obj.owner) : obj.owner[i].controller /\ obj.owner[i].name = p

\* A comparison of the whole Spec, the fields the sync maintains included.
WholeSpecEqual(exist, new) ==
  exist.sel = new.sel /\ exist.host = new.host /\ exist.ip = new.ip

\* part_000:175: only Spec.Selectors is compared.
SelectorsEqual(exist, new) == exist.sel = new.sel

\* part_000:271: only Spec.Selector is compared.
ServiceSelectorEqual(found, service) == found.selector = service.selector

\* part_000:288-296 and main.go:212-213: the owner references of kind Policy.
PolicyOwners(obj) ==
  SelectSeq(obj.owner, LAMBDA ref : ref.kind = PolicyKind)

\* A write that puts the address and the exit node into the Policy's spec.
SpecUpdate(stored, copy) ==
  [stored EXCEPT !.ip = copy.addr, !.host = copy.node,
                 !.stamped = copy.stamped]

\* main.go:244 and 258: the status subresource takes the status of the copy.
StatusUpdate(stored, copy) ==
  [stored EXCEPT !.addr = copy.addr, !.node = copy.node,
                 !.stamped = copy.stamped]

\* An Update that sends the object built from the Policy.
BuiltGatewayPolicy(exist, new) == new

\* part_000:177: Update of the fetched object with the new Selectors.
GatewayPolicyUpdate(exist, new) == [exist EXCEPT !.sel = new.sel]

\* part_000:273: Update of the built Service, which carries no resource
\* version; the store keeps the status of the stored object.
ServiceUpdate(found, service) == [service EXCEPT !.ingress = found.ingress]

\* main.go:271-274: the merge patch sets one key of the node selector.
GatewayPolicyPatch(stored, currentHost) == [stored EXCEPT !.host = currentHost]

\* The whole interval, in clock units.
WholeInterval(seconds) == seconds * UnitsPerSecond

\* part_000:315: time.Duration(BackgroundCheckerSeconds/2) * time.Second.
Threshold(seconds) == (seconds \div 2) * UnitsPerSecond

\* The sweeper's context: part_000:352 hands it context.Background().
SweeperCtxDone == FALSE

Ev(on, type, reason, about) ==
  [on |-> on, type |-> type, reason |-> reason, about |-> about]

\* ---------------------------------------------------------- bookkeeping
Outcomes == IF used.fail < MaxFailures THEN {TRUE, FALSE} ELSE {TRUE}

Spend(ok) == [used EXCEPT !.fail = @ + (IF ok THEN 0 ELSE 1)]

AllDirty == [p \in Policies |-> FALSE]

NoneSynced == [k \in Keys |-> <<>>]

\* What a write of the stored object (kind, key) does to a copy held elsewhere.
Disturb(l, kind, key) ==
  [l EXCEPT !.exFresh = @ /\ ~(kind = "gp" /\ l.key = key),
            !.upFresh = @ /\ ~(kind = "gp" /\ l.key = key),
            !.argFresh = @ /\ ~(kind = "gp" /\ l.key = key),
            !.polFresh = @ /\ ~(kind = "pol" /\ l.spol.name = key[2]),
            !.quiet = FALSE, !.again = FALSE,
            !.squiet = FALSE, !.sagain = FALSE]

Call(w, op, kind, key, ok, stale) ==
  [NoStep EXCEPT !.w = w, !.op = op, !.kind = kind, !.key = key, !.ok = ok,
                 !.stale = stale, !.insync = loc[w].insync,
                 !.again = loc[w].again, !.sagain = loc[w].sagain]

\* One step of worker w: its position, its locals, the call it made, and
\* whether the call changed the stored object.
WorkerStep(w, npc, l, call, changed) ==
  /\ pc' = [pc EXCEPT ![w] = npc]
  /\ loc' = [v \in Workers |->
               IF v = w THEN l
               ELSE IF changed THEN Disturb(loc[v], call.kind, call.key)
               ELSE loc[v]]
  /\ last' = call
  /\ clean' = IF changed THEN AllDirty ELSE clean
  /\ synced' = IF changed THEN NoneSynced ELSE synced

\* A step of another writer that changes the stored object (kind, key).
OtherStep(who, op, kind, key, cost) ==
  /\ used.ext + cost <= MaxExternal
  /\ loc' = [v \in Workers |-> Disturb(loc[v], kind, key)]
  /\ last' = [NoStep EXCEPT !.w = who, !.op = op, !.kind = kind, !.key = key]
  /\ clean' = AllDirty
  /\ synced' = NoneSynced
  /\ used' = [used EXCEPT !.ext = @ + cost]

\* The event router, part_000:284-300: one request per owner reference of
\* kind Policy, with the name of the reference and the namespace of the
\* object that was handed in.
findObjectsForHaegressGatewayPolicy(obj) ==
  [i \in 1..Len(PolicyOwners(obj)) |->
     [name |-> PolicyOwners(obj)[i].name, namespace |-> obj.namespace]]

Range(seq) == {seq[i] : i \in 1..Len(seq)}

\* A filter of the watches that lets every event through.
EveryEventPasses(event) == TRUE

\* part_000:364-377 and 382-395: the filter of the two watches of derived
\* objects lets the delete event through and no other.
EventPasses(event) == event = "delete"

\* part_000:361-396: what the router returns for an event of the derived
\* object obj, when the filter lets the event through.
Requests(event, obj) ==
  IF EventPasses(event) THEN findObjectsForHaegressGatewayPolicy(obj) ELSE <<>>

\* The Policies that the requests name.  The Policy is cluster-scoped (it
\* is the controller of the cluster-scoped GatewayPolicy, part_000:127), and
\* the Get of part_000:77 finds a cluster-scoped object by its name.
Routed(event, obj) == {r.name : r \in Range(Requests(event, obj))}

\* A step of another writer whose event of the derived object obj goes to
\* the watch.
RoutedStep(who, op, kind, key, cost, obj) ==
  /\ used.ext + cost <= MaxExternal
  /\ loc' = [v \in Workers |-> Disturb(loc[v], kind, key)]
  /\ last' = [NoStep EXCEPT !.w = who, !.op = op, !.kind = kind, !.key = key,
                            !.owners = obj.owner, !.namespace = obj.namespace,
                            !.requests = Requests(op, obj)]
  /\ clean' = AllDirty
  /\ synced' = NoneSynced
  /\ used' = [used EXCEPT !.ext = @ + cost]

\* ------------------------------------------------------------ Reconcile
Pol(p) == <<"pol", <<"", p>>>>
GP(key) == <<"gp", key>>
Svc(key) == <<"svc", key>>

\* A Reconcile that ends when the first drift step has returned, whatever
\* it returned.
StopAfterGP(w, err) == IF w = "rec" THEN "rRet" ELSE "vGet"

\* Where a worker goes when UpdateOrCreateCiliumEgressGatewayPolicy returns:
\* Reconcile returns on an error (part_000:88-91), the sweeper logs it and
\* goes on (part_000:337-343).
AfterGP(w, err) == IF w = "rec" /\ err THEN "rRet" ELSE "vGet"

\* Where a worker goes when UpdateOrCreateService returns.
AfterService(w) == IF w = "rec" THEN "rRet" ELSE "tNext"

\* The locals when UpdateOrCreateCiliumEgressGatewayPolicy returns err.
GPReturns(w, l, err) ==
  [l EXCEPT !.firstErr = err,
            !.res = IF w = "rec" /\ err THEN [requeue |-> TRUE, err |-> TRUE]
                    ELSE NoResult,
            !.insync = FALSE]

\* The locals when UpdateOrCreateService returns err.
ServiceReturns(w, l, err) ==
  [l EXCEPT !.res = IF w = "rec" /\ err THEN [requeue |-> TRUE, err |-> TRUE]
                    ELSE [requeue |-> FALSE, err |-> err]]

\* The locals of a worker that starts on a Policy it has just read.
StartOn(pol, todo) ==
  [NoLocal EXCEPT !.p = pol.name, !.pol = pol, !.key = DerivedKey(pol),
                  !.todo = todo, !.quiet = TRUE, !.again = clean[pol.name]]

\* A worker of the controller takes a request (controller-runtime).
RecStart(p) ==
  /\ pc["rec"] = "idle" /\ phase = "running" /\ p \in recQ
  /\ recQ' = recQ \ {p}
  /\ pc' = [pc EXCEPT !["rec"] = "rGet"]
  /\ loc' = [loc EXCEPT !["rec"] = [NoLocal EXCEPT !.p = p]]
  /\ last' = NoStep
  /\ UNCHANGED <<policy, gp, svc, events, svcQ, marker, interval, ticker,
                 phase, used, clean, synced>>

\* A Reconcile that reports the Policy it does not find as an error.
NotFoundIsError(ok, found) ==
  IF ok /\ found THEN NoResult ELSE [requeue |-> FALSE, err |-> TRUE]

\* part_000:77-86: what Reconcile returns from the Get of the Policy: the
\* error of a failed Get, and success for a Policy that is not there.
PolicyGetResult(ok, found) ==
  IF ok THEN NoResult ELSE [requeue |-> FALSE, err |-> TRUE]

\* part_000:74-86: Get of the Policy.
RecGetPolicy ==
  /\ pc["rec"] = "rGet" /\ phase # "exited"
  /\ \E ok \in Outcomes :
       LET l == loc["rec"]
           pol == policy[l.p]
           call == Call("rec", "get", "pol", <<"", l.p>>, ok, FALSE)
       IN /\ used' = Spend(ok)
          /\ IF ~ok \/ ~pol.exists
             THEN WorkerStep("rec", "rRet",
                    [l EXCEPT !.res = PolicyGetResult(ok, pol.exists),
                              !.missing = ok /\ ~pol.exists],
                    [call EXCEPT !.missing = ok /\ ~pol.exists], FALSE)
             ELSE WorkerStep("rec", "gGet", StartOn(pol, <<>>), call, FALSE)
  /\ UNCHANGED <<policy, gp, svc, events, recQ, svcQ, marker, interval,
                 ticker, phase>>

\* Reconcile returns: an error or a RequeueAfter puts the request back.
RecReturn ==
  /\ pc["rec"] = "rRet" /\ phase # "exited"
  /\ LET l == loc["rec"]
         done == l.pol.exists /\ ~l.res.err /\ l.quiet
     IN /\ recQ' = IF l.res.err \/ l.res.requeue THEN recQ \cup {l.p} ELSE recQ
        /\ clean' = IF done THEN [clean EXCEPT ![l.p] = TRUE] ELSE clean
        /\ last' = [NoStep EXCEPT !.w = "rec", !.op = "return", !.key = l.key,
                                  !.again = l.again, !.steps = l.steps,
                                  !.foreign = l.foreign,
                                  !.missing = l.missing,
                                  !.failed = l.failed, !.conflict = l.conflict,
                                  !.err = l.res.err, !.requeue = l.res.requeue]
  /\ pc' = [pc EXCEPT !["rec"] = "idle"]
  /\ loc' = [loc EXCEPT !["rec"] = NoLocal]
  /\ UNCHANGED <<policy, gp, svc, events, svcQ, marker, interval, ticker,
                 phase, used, synced>>

\* ----------------------------- UpdateOrCreateCiliumEgressGatewayPolicy
\* part_000:106-134 and 162-186: the marker, the Get and what follows it.
GetGatewayPolicy(w) ==
  /\ pc[w] = "gGet" /\ phase # "exited"
  /\ marker' = 0
  /\ \E ok \in Outcomes :
       LET l == [loc[w] EXCEPT !.steps = @ \cup {"gp"}]
           new == CiliumEgressGatewayPolicyNew(l.pol)
           exist == gp[l.key]
           call == Call(w, "get", "gp", l.key, ok, FALSE)
       IN /\ used' = Spend(ok)
          /\ IF ~ok
             THEN /\ WorkerStep(w, AfterGP(w, TRUE),
                       GPReturns(w, [l EXCEPT !.failed = TRUE], TRUE), call, FALSE)
                  /\ events' = events
             ELSE IF ~exist.exists
             THEN /\ WorkerStep(w, "gCreate", l, call, FALSE)
                  /\ events' = events
             ELSE IF ~IsControlledBy(exist, l.p)
             THEN /\ WorkerStep(w, AfterGP(w, FALSE),
                       GPReturns(w, [l EXCEPT !.foreign = TRUE], FALSE),
                       [call EXCEPT !.foreign = TRUE], FALSE)
                  /\ events' = events \cup
                       {Ev(Pol(l.p), "Warning", "AlreadyExists", GP(l.key))}
             ELSE IF ~SelectorsEqual(exist, new)
             THEN /\ WorkerStep(w, "gUpdate",
                       [l EXCEPT !.ex = exist, !.exFresh = TRUE], call, FALSE)
                  /\ events' = events
             ELSE /\ WorkerStep(w, AfterGP(w, FALSE), GPReturns(w, l, FALSE),
                       call, FALSE)
                  /\ events' = events
  /\ UNCHANGED <<policy, gp, svc, recQ, svcQ, interval, ticker, phase>>

\* part_000:139-149: Create, the "Created" event, then the error check.
CreateGatewayPolicy(w) ==
  /\ pc[w] = "gCreate" /\ phase # "exited"
  /\ \E ok \in Outcomes :
       LET l == loc[w]
           new == CiliumEgressGatewayPolicyNew(l.pol)
           done == ok /\ ~gp[l.key].exists
           call == Call(w, "create", "gp", l.key, done, FALSE)
       IN /\ used' = Spend(ok)
          /\ recQ' = IF done THEN recQ \cup Routed("create", new) ELSE recQ
          /\ gp' = IF done THEN [gp EXCEPT ![l.key] = new] ELSE gp
          /\ events' = events \cup
               {Ev(Pol(l.p), "Normal", "Created", GP(l.key))}
          /\ IF done
             THEN WorkerStep(w, "gSvc", [l EXCEPT !.argFresh = TRUE], call, TRUE)
             ELSE WorkerStep(w, AfterGP(w, TRUE),
                    GPReturns(w, [l EXCEPT !.failed = TRUE], TRUE), call, FALSE)
  /\ UNCHANGED <<policy, svc, svcQ, marker, interval, ticker, phase>>

\* part_000:177-184: Update of the fetched object, then the "Updated" event.
UpdateGatewayPolicy(w) ==
  /\ pc[w] = "gUpdate" /\ phase # "exited"
  /\ \E ok \in Outcomes :
       LET l == loc[w]
           new == CiliumEgressGatewayPolicyNew(l.pol)
           done == ok /\ l.exFresh /\ gp[l.key].exists
           call == Call(w, "update", "gp", l.key, done, ~l.exFresh)
       IN /\ used' = Spend(ok)
          /\ recQ' = IF done THEN recQ \cup Routed("update", l.ex) ELSE recQ
          /\ gp' = IF done
                   THEN [gp EXCEPT ![l.key] = GatewayPolicyUpdate(l.ex, new)]
                   ELSE gp
          /\ events' = IF done
                       THEN events \cup
                              {Ev(Pol(l.p), "Normal", "Updated", GP(l.key))}
                       ELSE events
          /\ WorkerStep(w, AfterGP(w, ~done),
               GPReturns(w, [l EXCEPT !.failed = @ \/ ~done], ~done), call, done)
  /\ UNCHANGED <<policy, svc, svcQ, marker, interval, ticker, phase>>

\* ------------------------------ SyncServiceWithCiliumEgressGatewayPolicy
CurrentHost(l) == l.service.host          \* main.go:223
PolicyHost(l) == l.arg.host               \* main.go:222
HasIngress(l) == Len(l.service.ingress) > 0
IngressIP(l) == l.service.ingress[1]      \* only Ingress[0] is read

\* A sync that never goes on to the patch of the node selector.
NeverPatch(l) == "sRet"

\* main.go:263-266
PatchStage(l) == IF PolicyHost(l) = CurrentHost(l) THEN "sRet" ELSE "sPatch"

\* A sync that does not stop at an empty current host.
HostStageNoStop(l) ==
  IF l.spol.node # CurrentHost(l) THEN "sStatN" ELSE PatchStage(l)

\* main.go:250-261
HostStage(l) ==
  IF CurrentHost(l) = "" THEN "sRet"
  ELSE IF l.spol.node # CurrentHost(l) THEN "sStatN"
  ELSE PatchStage(l)

\* main.go:241
StatusAddressStage(l) ==
  IF l.spol.addr # IngressIP(l) THEN "sStatA" ELSE HostStage(l)

\* main.go:225
AddressStage(l) == IF HasIngress(l) THEN "sFresh" ELSE HostStage(l)

\* main.go:211-220: the first owner reference of kind Policy is fetched.
SyncFirstStage(l) ==
  IF Len(PolicyOwners(l.arg)) > 0 THEN "sPol" ELSE AddressStage(l)

\* The locals on entry: the two arguments, nothing fetched yet.
SyncCall(l, service, arg, argFresh) ==
  [l EXCEPT !.service = service, !.arg = arg, !.argFresh = argFresh,
            !.spol = NoPolicy, !.polFresh = FALSE,
            !.up = NoGP, !.upFresh = FALSE, !.sres = NoResult,
            !.insync = TRUE, !.sfailed = FALSE, !.squiet = TRUE,
            !.conflict = FALSE, !.missed = FALSE, !.tried = FALSE,
            !.marks = {},
            !.sagain = (synced[l.key] = <<service.ingress, service.host>>)]

SyncFails(l, requeue, err) ==
  [l EXCEPT !.sres = [requeue |-> requeue, err |-> err],
            !.sfailed = TRUE, !.failed = TRUE]

\* main.go:214-217: Get of the owning Policy; a failure ends the sync with
\* (Result{}, nil).
SyncGetPolicy(w) ==
  /\ pc[w] = "sPol" /\ phase # "exited"
  /\ \E ok \in Outcomes :
       LET l == loc[w]
           name == PolicyOwners(l.arg)[1].name
           found == ok /\ policy[name].exists
           call == Call(w, "get", "pol", <<"", name>>, found, FALSE)
           got == [l EXCEPT !.spol = policy[name], !.polFresh = TRUE]
       IN /\ used' = Spend(ok)
          /\ IF found
             THEN WorkerStep(w, AddressStage(got), got, call, FALSE)
             ELSE WorkerStep(w, "sRet", SyncFails(l, FALSE, FALSE), call, FALSE)
  /\ UNCHANGED <<policy, gp, svc, events, recQ, svcQ, marker, interval,
                 ticker, phase>>

\* main.go:226-232: the fresh Get of the GatewayPolicy.
SyncFetchFresh(w) ==
  /\ pc[w] = "sFresh" /\ phase # "exited"
  /\ \E ok \in Outcomes :
       LET l == loc[w]
           found == ok /\ gp[l.key].exists
           call == Call(w, "get", "gp", l.key, found, FALSE)
           got == [l EXCEPT !.up = gp[l.key], !.upFresh = TRUE]
       IN /\ used' = Spend(ok)
          /\ IF ~found
             THEN WorkerStep(w, "sRet",
                    [SyncFails(l, TRUE, TRUE) EXCEPT
                       !.marks = @ \cup {"getFailed"}],
                    call, FALSE)
             ELSE IF got.up.ip # IngressIP(l)
             THEN WorkerStep(w, "sAddr", got, call, FALSE)
             ELSE WorkerStep(w, StatusAddressStage(got), got, call, FALSE)
  /\ UNCHANGED <<policy, gp, svc, events, recQ, svcQ, marker, interval,
                 ticker, phase>>

\* main.go:233-237: Update of the fresh copy with the address; a failure
\* ends the sync with (RequeueAfter, nil).
SyncUpdateAddress(w) ==
  /\ pc[w] = "sAddr" /\ phase # "exited"
  /\ \E ok \in Outcomes :
       LET l == loc[w]
           done == ok /\ l.upFresh /\ gp[l.key].exists
           new == [l.up EXCEPT !.ip = IngressIP(l)]
           call == Call(w, "update", "gp", l.key, done, ~l.upFresh)
           got == [l EXCEPT !.up = new, !.marks = @ \cup {"address"}]
       IN /\ used' = Spend(ok)
          /\ recQ' = IF done THEN recQ \cup Routed("update", new) ELSE recQ
          /\ gp' = IF done THEN [gp EXCEPT ![l.key] = new] ELSE gp
          /\ IF done
             THEN WorkerStep(w, StatusAddressStage(got), got, call, TRUE)
             ELSE WorkerStep(w, "sRet",
                    [SyncFails(l, TRUE, FALSE) EXCEPT
                       !.conflict = ~l.upFresh,
                       !.marks = @ \cup {"updateFailed"}],
                    call, FALSE)
  /\ UNCHANGED <<policy, svc, events, svcQ, marker, interval, ticker, phase>>

\* A sync that returns when a status write has failed.
AbortOnStatusError(done, npc) == IF done THEN npc ELSE "sRet"

\* main.go:244-246 and 258-260: the error of the status write is logged and
\* the sync goes on to the stage that follows.
AfterStatus(done, npc) == npc

\* r.Status().Update of the Policy copy (main.go:244 and 258): the copy is
\* changed first, the error is logged and nothing else.  An Update of the
\* Policy is an event of the controller's own watch.
StatusWrite(w, copy, npc, mark) ==
  \E ok \in Outcomes :
    LET l == loc[w]
        done == ok /\ l.polFresh /\ copy.exists /\ policy[copy.name].exists
        call == Call(w, "status", "pol", <<"", copy.name>>, done, ~l.polFresh)
        got == [l EXCEPT !.spol = copy, !.sfailed = @ \/ ~done,
                         !.failed = @ \/ ~done, !.missed = @ \/ ~done,
                         !.marks = @ \cup {mark}]
    IN /\ used' = [Spend(ok) EXCEPT !.missed = @ \/ ~done]
       /\ policy' = IF done
                    THEN [policy EXCEPT
                            ![copy.name] = StatusUpdate(policy[copy.name], copy)]
                    ELSE policy
       /\ recQ' = IF done THEN recQ \cup {copy.name} ELSE recQ
       /\ WorkerStep(w, AfterStatus(done, npc), got, call, done)

\* main.go:241-247
SyncStatusAddress(w) ==
  /\ pc[w] = "sStatA" /\ phase # "exited"
  /\ LET l == loc[w]
         copy == [l.spol EXCEPT !.addr = IngressIP(l), !.stamped = TRUE]
     IN StatusWrite(w, copy, HostStage([l EXCEPT !.spol = copy]),
                    "statusAddress")
  /\ UNCHANGED <<gp, svc, events, svcQ, marker, interval, ticker, phase>>

\* main.go:255-261
SyncStatusExitNode(w) ==
  /\ pc[w] = "sStatN" /\ phase # "exited"
  /\ LET l == loc[w]
         copy == [l.spol EXCEPT !.node = CurrentHost(l), !.stamped = TRUE]
     IN StatusWrite(w, copy, PatchStage(l), "statusNode")
  /\ UNCHANGED <<gp, svc, events, svcQ, marker, interval, ticker, phase>>

\* main.go:270-290: the merge patch, sent by name with no resource version,
\* then the two events.
SyncPatch(w) ==
  /\ pc[w] = "sPatch" /\ phase # "exited"
  /\ \E ok \in Outcomes :
       LET l == loc[w]
           done == ok /\ gp[l.key].exists
           new == GatewayPolicyPatch(gp[l.key], CurrentHost(l))
           call == Call(w, "patch", "gp", l.key, done, ~l.argFresh)
       IN /\ used' = Spend(ok)
          /\ recQ' = IF done THEN recQ \cup Routed("update", new) ELSE recQ
          /\ gp' = IF done THEN [gp EXCEPT ![l.key] = new] ELSE gp
          /\ events' = IF done
                       THEN events \cup
                              {Ev(GP(l.key), "Normal", "EgressUpdate", Svc(l.key)),
                               Ev(Svc(l.key), "Normal", "EgressUpdate", GP(l.key))}
                       ELSE events
          /\ IF done
             THEN WorkerStep(w, "sRet",
                    [l EXCEPT !.tried = TRUE, !.marks = @ \cup {"events"}],
                    call, new # gp[l.key])
             ELSE WorkerStep(w, "sRet",
                    [SyncFails(l, TRUE, TRUE) EXCEPT !.tried = TRUE], call,
                    FALSE)
  /\ UNCHANGED <<policy, svc, svcQ, marker, interval, ticker, phase>>

\* The sync returns to its caller: the drift reconciler keeps the error and
\* drops the Result (part_000:156-159).
SyncReturn(w) ==
  /\ pc[w] = "sRet" /\ phase # "exited"
  /\ LET l == loc[w]
         completed == ~l.sres.err /\ ~l.sres.requeue /\ ~l.sfailed /\ l.squiet
         back == [l EXCEPT !.insync = FALSE, !.sagain = FALSE]
     IN /\ synced' = IF completed
                     THEN [synced EXCEPT
                             ![l.key] = <<l.service.ingress, l.service.host>>]
                     ELSE synced
        /\ IF w = "svc"
           THEN /\ pc' = [pc EXCEPT ![w] = "cRet"]
                /\ loc' = [loc EXCEPT ![w] = [back EXCEPT !.res = l.sres]]
           ELSE /\ pc' = [pc EXCEPT ![w] = AfterGP(w, l.sres.err)]
                /\ loc' = [loc EXCEPT ![w] = GPReturns(w, back, l.sres.err)]
        /\ last' = [NoStep EXCEPT !.w = w, !.op = "syncreturn", !.key = l.key,
                                  !.err = l.sres.err, !.requeue = l.sres.requeue,
                                  !.failed = l.sfailed, !.quiet = l.squiet,
                                  !.missed = l.missed, !.tried = l.tried,
                                  !.marks = l.marks,
                                  !.host = CurrentHost(l),
                                  !.policyHost = PolicyHost(l),
                                  !.ingress = l.service.ingress,
                                  !.before = used.missed]
  /\ UNCHANGED <<policy, gp, svc, events, recQ, svcQ, marker, interval,
                 ticker, phase, used, clean>>

\* part_000:151-160: Get of the Service; when it is there the sync is called
\* with it and with the object that was just created.  Any other outcome of
\* the Get falls through to "return nil".
GetServiceAfterCreate(w) ==
  /\ pc[w] = "gSvc" /\ phase # "exited"
  /\ \E ok \in Outcomes :
       LET l == loc[w]
           service == svc[l.key]
           new == CiliumEgressGatewayPolicyNew(l.pol)
           found == ok /\ service.exists
           call == Call(w, "get", "svc", l.key, ok, FALSE)
           in == SyncCall(l, service, new, l.argFresh)
       IN /\ used' = Spend(ok)
          /\ IF found
             THEN WorkerStep(w, SyncFirstStage(in), in, call, FALSE)
             ELSE WorkerStep(w, AfterGP(w, FALSE),
                    GPReturns(w, [l EXCEPT !.failed = @ \/ ~ok], FALSE),
                    call, FALSE)
  /\ UNCHANGED <<policy, gp, svc, events, recQ, svcQ, marker, interval,
                 ticker, phase>>

\* ------------------------------------------------ UpdateOrCreateService
\* part_000:195-248 and 259-278: the marker, the Get and what follows it.
GetService(w) ==
  /\ pc[w] = "vGet" /\ phase # "exited"
  /\ marker' = 0
  /\ \E ok \in Outcomes :
       LET l == [loc[w] EXCEPT !.steps = @ \cup {"svc"}]
           service == DesiredService(l.pol)
           found == svc[l.key]
           call == Call(w, "get", "svc", l.key, ok, FALSE)
       IN /\ used' = Spend(ok)
          /\ IF ~ok
             THEN /\ WorkerStep(w, AfterService(w),
                       ServiceReturns(w, [l EXCEPT !.failed = TRUE], TRUE),
                       call, FALSE)
                  /\ events' = events
             ELSE IF ~found.exists
             THEN /\ WorkerStep(w, "vCreate", l, call, FALSE)
                  /\ events' = events
             ELSE IF ~IsControlledBy(found, l.p)
             THEN /\ WorkerStep(w, AfterService(w), ServiceReturns(w, l, FALSE),
                       call, FALSE)
                  /\ events' = events \cup
                       {Ev(Pol(l.p), "Warning", "AlreadyExists", Svc(l.key))}
             ELSE IF ~ServiceSelectorEqual(found, service)
             THEN /\ WorkerStep(w, "vUpdate", l, call, FALSE)
                  /\ events' = events
             ELSE /\ WorkerStep(w, AfterService(w), ServiceReturns(w, l, FALSE),
                       call, FALSE)
                  /\ events' = events
  /\ UNCHANGED <<policy, gp, svc, recQ, svcQ, interval, ticker, phase>>

\* part_000:251-258: Create, the "Created" event, then the error check.
CreateService(w) ==
  /\ pc[w] = "vCreate" /\ phase # "exited"
  /\ \E ok \in Outcomes :
       LET l == loc[w]
           service == DesiredService(l.pol)
           done == ok /\ ~svc[l.key].exists
           call == Call(w, "create", "svc", l.key, done, FALSE)
       IN /\ used' = Spend(ok)
          /\ recQ' = IF done THEN recQ \cup Routed("create", service) ELSE recQ
          /\ svc' = IF done THEN [svc EXCEPT ![l.key] = service] ELSE svc
          /\ svcQ' = IF done THEN svcQ \cup {l.key} ELSE svcQ
          /\ events' = events \cup
               {Ev(Pol(l.p), "Normal", "Created", Svc(l.key))}
          /\ WorkerStep(w, AfterService(w),
               ServiceReturns(w, [l EXCEPT !.failed = @ \/ ~done], ~done),
               call, done)
  /\ UNCHANGED <<policy, gp, marker, interval, ticker, phase>>

\* part_000:272-276: Update of the built Service.
UpdateService(w) ==
  /\ pc[w] = "vUpdate" /\ phase # "exited"
  /\ \E ok \in Outcomes :
       LET l == loc[w]
           service == DesiredService(l.pol)
           done == ok /\ svc[l.key].exists
           call == Call(w, "update", "svc", l.key, done, FALSE)
       IN /\ used' = Spend(ok)
          /\ recQ' = IF done THEN recQ \cup Routed("update", service) ELSE recQ
          /\ svc' = IF done
                    THEN [svc EXCEPT ![l.key] = ServiceUpdate(svc[l.key], service)]
                    ELSE svc
          /\ svcQ' = IF done THEN svcQ \cup {l.key} ELSE svcQ
          /\ WorkerStep(w, AfterService(w),
               ServiceReturns(w, [l EXCEPT !.failed = @ \/ ~done], ~done),
               call, done)
  /\ UNCHANGED <<policy, gp, events, marker, interval, ticker, phase>>

\* ------------------------------------------- backgroundPeriodicalCheck
\* Half of the interval, in clock units.
HalfInterval(seconds) == (seconds * UnitsPerSecond) \div 2

\* The clock: one unit passes.  The marker grows older, up to the age the
\* throttle can tell; the ticker of part_000:303 comes closer to firing.
TimePasses ==
  /\ phase # "exited"
  /\ LET older == marker # NoMarker /\ marker < HalfInterval(interval)
         closer == ticker < interval * UnitsPerSecond
     IN /\ older \/ closer
        /\ marker' = IF older THEN marker + 1 ELSE marker
        /\ ticker' = IF closer THEN ticker + 1 ELSE ticker
  /\ last' = NoStep
  /\ UNCHANGED <<policy, gp, svc, events, pc, loc, recQ, svcQ, interval, phase,
                 used, clean, synced>>

\* part_000:307-324: the loop takes a tick the ticker has fired.
Tick ==
  /\ pc["swp"] = "idle" /\ phase # "exited" /\ ~SweeperCtxDone
  /\ ticker = interval * UnitsPerSecond
  /\ ticker' = 0
  /\ LET did == IF marker = NoMarker THEN "init"
                ELSE IF marker < Threshold(interval) THEN "skip"
                ELSE "run"
     IN /\ marker' = IF did = "init" THEN 0 ELSE marker
        /\ pc' = [pc EXCEPT !["swp"] = IF did = "run" THEN "tList" ELSE "idle"]
        /\ last' = [NoStep EXCEPT !.w = "swp", !.op = "tick", !.did = did,
                                  !.age = marker,
                                  !.stopping = (phase = "stopping")]
  /\ UNCHANGED <<policy, gp, svc, events, loc, recQ, svcQ, interval, phase,
                 used, clean, synced>>

\* The Policies a List returns, in the order of their names.
Listed == SelectSeq([i \in 1..Len(PolicyOrder) |-> policy[PolicyOrder[i]]],
                    LAMBDA pol : pol.exists)

\* part_000:326-332: List, then the first Policy of the loop.
SweepList ==
  /\ pc["swp"] = "tList" /\ phase # "exited"
  /\ \E ok \in Outcomes :
       LET call == Call("swp", "list", "pol", NoKey, ok, FALSE)
       IN /\ used' = Spend(ok)
          /\ IF ok /\ Len(Listed) > 0
             THEN WorkerStep("swp", "gGet",
                    [StartOn(Head(Listed), Tail(Listed)) EXCEPT
                       !.listed = {Listed[i].name : i \in 1..Len(Listed)}],
                    [call EXCEPT
                       !.listed = {Listed[i].name : i \in 1..Len(Listed)}],
                    FALSE)
             ELSE WorkerStep("swp", "idle", NoLocal, call, FALSE)
  /\ UNCHANGED <<policy, gp, svc, events, recQ, svcQ, marker, interval,
                 ticker, phase>>

\* part_000:332-344: the end of one pass of the loop over policies.Items.
SweepNext ==
  /\ pc["swp"] = "tNext" /\ phase # "exited"
  /\ LET l == loc["swp"]
         done == ~l.firstErr /\ ~l.res.err /\ l.quiet
         now == IF done THEN [clean EXCEPT ![l.p] = TRUE] ELSE clean
         visited == l.visited \cup {l.p}
     IN /\ clean' = now
        /\ last' = [NoStep EXCEPT !.w = "swp", !.op = "swept", !.key = l.key,
                                  !.again = l.again, !.failed = l.failed,
                                  !.err = l.firstErr \/ l.res.err,
                                  !.steps = l.steps, !.listed = l.listed,
                                  !.visited = visited,
                                  !.did = IF l.todo = <<>> THEN "end" ELSE "next"]
        /\ IF l.todo = <<>>
           THEN /\ pc' = [pc EXCEPT !["swp"] = "idle"]
                /\ loc' = [loc EXCEPT !["swp"] = NoLocal]
           ELSE /\ pc' = [pc EXCEPT !["swp"] = "gGet"]
                /\ loc' = [loc EXCEPT !["swp"] =
                     [StartOn(Head(l.todo), Tail(l.todo)) EXCEPT
                        !.quiet = l.quiet,
                        !.again = l.quiet /\ now[Head(l.todo).name],
                        !.listed = l.listed, !.visited = visited]]
  /\ UNCHANGED <<policy, gp, svc, events, recQ, svcQ, marker, interval,
                 ticker, phase, used, synced>>

\* ------------------------------------------------ the Services controller
\* A worker takes a request.
SvcStart(key) ==
  /\ pc["svc"] = "idle" /\ phase = "running" /\ key \in svcQ
  /\ svcQ' = svcQ \ {key}
  /\ pc' = [pc EXCEPT !["svc"] = "cGet"]
  /\ loc' = [loc EXCEPT !["svc"] = [NoLocal EXCEPT !.p = key[2], !.key = key]]
  /\ last' = NoStep
  /\ UNCHANGED <<policy, gp, svc, events, recQ, marker, interval, ticker,
                 phase, used, clean, synced>>

\* The Service and its GatewayPolicy are read; a Service of a Policy that
\* reports an address is synchronised.
SvcGet ==
  /\ pc["svc"] = "cGet" /\ phase # "exited"
  /\ \E ok \in Outcomes :
       LET l == loc["svc"]
           service == svc[l.key]
           call == Call("svc", "get", "svc", l.key, ok, FALSE)
           in == SyncCall(l, service, gp[l.key], TRUE)
       IN /\ used' = Spend(ok)
          /\ IF ~ok
             THEN WorkerStep("svc", "cRet",
                    [l EXCEPT !.res = [requeue |-> FALSE, err |-> TRUE]],
                    call, FALSE)
             ELSE IF /\ service.exists /\ gp[l.key].exists
                     /\ Len(PolicyOwners(service)) > 0
                     /\ Len(service.ingress) > 0
             THEN WorkerStep("svc", SyncFirstStage(in), in, call, FALSE)
             ELSE WorkerStep("svc", "cRet", l, call, FALSE)
  /\ UNCHANGED <<policy, gp, svc, events, recQ, svcQ, marker, interval,
                 ticker, phase>>

\* The request is put back on an error or a RequeueAfter.
SvcReturn ==
  /\ pc["svc"] = "cRet" /\ phase # "exited"
  /\ LET l == loc["svc"]
     IN /\ svcQ' = IF l.res.err \/ l.res.requeue THEN svcQ \cup {l.key} ELSE svcQ
        /\ last' = [NoStep EXCEPT !.w = "svc", !.op = "return", !.key = l.key,
                                  !.failed = l.failed, !.conflict = l.conflict,
                                  !.err = l.res.err, !.requeue = l.res.requeue]
  /\ pc' = [pc EXCEPT !["svc"] = "idle"]
  /\ loc' = [loc EXCEPT !["svc"] = NoLocal]
  /\ UNCHANGED <<policy, gp, svc, events, recQ, marker, interval, ticker,
                 phase, used, clean, synced>>

\* ------------------------------------------------------ the other writers
LiveKeys == {DerivedKey(policy[p]) : p \in {q \in Policies : policy[q].exists}}

\* The address allocator fills in the first ingress address.
AllocateAddress(key) ==
  /\ phase # "exited"
  /\ svc[key].exists /\ svc[key].ingress = <<>>
  /\ svc' = [svc EXCEPT ![key].ingress = <<Address>>]
  /\ recQ' = recQ \cup Routed("update", svc[key])
  /\ svcQ' = svcQ \cup {key}
  /\ OtherStep("allocator", "update", "svc", key, 0)
  /\ UNCHANGED <<policy, gp, events, pc, marker, interval, ticker, phase>>

\* A node claims the address: the current-host annotation is set.
ClaimHost(key, n) ==
  /\ phase # "exited"
  /\ svc[key].exists /\ svc[key].ingress # <<>> /\ svc[key].host = ""
  /\ svc' = [svc EXCEPT ![key].host = n]
  /\ recQ' = recQ \cup Routed("update", svc[key])
  /\ svcQ' = svcQ \cup {key}
  /\ OtherStep("allocator", "update", "svc", key, 0)
  /\ UNCHANGED <<policy, gp, events, pc, marker, interval, ticker, phase>>

\* Another writer edits the node selector of a GatewayPolicy.
EditGatewayPolicy(key, h) ==
  /\ phase # "exited"
  /\ gp[key].exists /\ gp[key].host # h
  /\ gp' = [gp EXCEPT ![key].host = h]
  /\ recQ' = recQ \cup Routed("update", gp[key])
  /\ OtherStep("other", "update", "gp", key, 1)
  /\ UNCHANGED <<policy, svc, events, pc, svcQ, marker, interval, ticker,
                 phase>>

\* Another writer edits the selector of a Service.
EditService(key) ==
  /\ phase # "exited"
  /\ svc[key].exists /\ svc[key].selector # NoKey
  /\ svc' = [svc EXCEPT ![key].selector = NoKey]
  /\ recQ' = recQ \cup Routed("update", svc[key])
  /\ svcQ' = svcQ \cup {key}
  /\ OtherStep("other", "update", "svc", key, 1)
  /\ UNCHANGED <<policy, gp, events, pc, marker, interval, ticker, phase>>

\* Another writer deletes a derived object.
DeleteGatewayPolicy(key) ==
  /\ phase # "exited"
  /\ gp[key].exists
  /\ gp' = [gp EXCEPT ![key] = NoGP]
  /\ recQ' = recQ \cup Routed("delete", gp[key])
  /\ RoutedStep("other", "delete", "gp", key, 1, gp[key])
  /\ UNCHANGED <<policy, svc, events, pc, svcQ, marker, interval, ticker,
                 phase>>

DeleteService(key) ==
  /\ phase # "exited"
  /\ svc[key].exists
  /\ svc' = [svc EXCEPT ![key] = NoService]
  /\ svcQ' = svcQ \ {key}
  /\ recQ' = recQ \cup Routed("delete", svc[key])
  /\ RoutedStep("other", "delete", "svc", key, 1, svc[key])
  /\ UNCHANGED <<policy, gp, events, pc, marker, interval, ticker, phase>>

\* Another writer creates an object of its own under a derived name.
CreateForeignGatewayPolicy(key) ==
  /\ phase # "exited"
  /\ key \in LiveKeys /\ ~gp[key].exists
  /\ gp' = [gp EXCEPT ![key] = [NoGP EXCEPT !.exists = TRUE, !.sel = "s1"]]
  /\ recQ' = recQ \cup Routed("create", gp'[key])
  /\ OtherStep("other", "create", "gp", key, 1)
  /\ UNCHANGED <<policy, svc, events, pc, svcQ, marker, interval, ticker,
                 phase>>

CreateForeignService(key) ==
  /\ phase # "exited"
  /\ key \in LiveKeys /\ ~svc[key].exists
  /\ svc' = [svc EXCEPT ![key] = [NoService EXCEPT !.exists = TRUE,
                                                   !.namespace = key[1]]]
  /\ recQ' = recQ \cup Routed("create", svc'[key])
  /\ svcQ' = svcQ \cup {key}
  /\ OtherStep("other", "create", "svc", key, 1)
  /\ UNCHANGED <<policy, gp, events, pc, marker, interval, ticker, phase>>

\* The user edits the Policy: its Selectors, or the target-namespace
\* annotation.
EditPolicySelectors(p, s) ==
  /\ phase # "exited"
  /\ policy[p].exists /\ policy[p].sel # s
  /\ policy' = [policy EXCEPT ![p].sel = s]
  /\ recQ' = recQ \cup {p}
  /\ OtherStep("user", "update", "pol", <<"", p>>, 1)
  /\ UNCHANGED <<gp, svc, events, pc, svcQ, marker, interval, ticker, phase>>

EditPolicyNamespace(p, a) ==
  /\ phase # "exited"
  /\ policy[p].exists /\ policy[p].ann # a
  /\ policy' = [policy EXCEPT ![p].ann = a]
  /\ recQ' = recQ \cup {p}
  /\ OtherStep("user", "update", "pol", <<"", p>>, 1)
  /\ UNCHANGED <<gp, svc, events, pc, svcQ, marker, interval, ticker, phase>>

\* The user deletes the Policy: the delete event of the controller's own
\* resource (part_000:360) is a reconcile request.
DeletePolicy(p) ==
  /\ phase # "exited"
  /\ policy[p].exists
  /\ policy' = [policy EXCEPT ![p] = NoPolicy]
  /\ recQ' = recQ \cup {p}
  /\ OtherStep("user", "delete", "pol", <<"", p>>, 1)
  /\ UNCHANGED <<gp, svc, events, pc, svcQ, marker, interval, ticker, phase>>

\* main.go:166: the signal handler's context is cancelled, the manager
\* stops and main returns.
Shutdown ==
  /\ phase = "running"
  /\ phase' = "stopping"
  /\ last' = NoStep
  /\ UNCHANGED <<policy, gp, svc, events, pc, loc, recQ, svcQ, marker,
                 interval, ticker, used, clean, synced>>

Exit ==
  /\ phase = "stopping"
  /\ phase' = "exited"
  /\ last' = NoStep
  /\ UNCHANGED <<policy, gp, svc, events, pc, loc, recQ, svcQ, marker,
                 interval, ticker, used, clean, synced>>

\* ------------------------------------------------------- specifications
InitWith(existing, seconds) ==
  /\ policy = [p \in Policies |-> IF p \in existing THEN NewPolicy(p) ELSE NoPolicy]
  /\ gp = [k \in Keys |-> NoGP]
  /\ svc = [k \in Keys |-> NoService]
  /\ events = {}
  /\ pc = [w \in Workers |-> "idle"]
  /\ loc = [w \in Workers |-> NoLocal]
  /\ recQ = existing
  /\ svcQ = {}
  /\ marker = NoMarker
  /\ interval \in seconds
  /\ ticker = 0
  /\ phase = "running"
  /\ used = [ext |-> 0, fail |-> 0, missed |-> FALSE]
  /\ last = NoStep
  /\ clean = AllDirty
  /\ synced = NoneSynced

Init == InitWith({"p1"}, {1})

Reconciler ==
  \/ \E p \in Policies : RecStart(p)
  \/ RecGetPolicy
  \/ RecReturn

Drift(w) ==
  \/ GetGatewayPolicy(w)
  \/ CreateGatewayPolicy(w)
  \/ GetServiceAfterCreate(w)
  \/ UpdateGatewayPolicy(w)
  \/ GetService(w)
  \/ CreateService(w)
  \/ UpdateService(w)

Sync(w) ==
  \/ SyncGetPolicy(w)
  \/ SyncFetchFresh(w)
  \/ SyncUpdateAddress(w)
  \/ SyncStatusAddress(w)
  \/ SyncStatusExitNode(w)
  \/ SyncPatch(w)
  \/ SyncReturn(w)

Sweeper ==
  \/ Tick
  \/ SweepList
  \/ SweepNext

ServicesController ==
  \/ \E key \in Keys : SvcStart(key)
  \/ SvcGet
  \/ SvcReturn

Allocator ==
  \/ \E key \in Keys : AllocateAddress(key)
  \/ \E key \in Keys, n \in NodeNames : ClaimHost(key, n)

Others ==
  \/ \E key \in Keys, h \in Hosts : EditGatewayPolicy(key, h)
  \/ \E key \in Keys : EditService(key)
  \/ \E key \in Keys : DeleteGatewayPolicy(key)
  \/ \E key \in Keys : DeleteService(key)
  \/ \E key \in Keys : CreateForeignGatewayPolicy(key)
  \/ \E key \in Keys : CreateForeignService(key)
  \/ \E p \in Policies, s \in SelectorValues : EditPolicySelectors(p, s)
  \/ \E p \in Policies : DeletePolicy(p)

Next ==
  \/ Reconciler
  \/ Drift("rec")
  \/ \E w \in {"rec", "svc"} : Sync(w)
  \/ ServicesController
  \/ Allocator
  \/ Others

Spec == Init /\ [][Next]_vars

\* The sweeper with the clock and the shutdown of the process; its drift
\* steps store the marker as those of Reconcile do.  Nobody edits a selector
\* here, so the Update branches of the drift steps are never entered.
SweepInit == InitWith(Policies, 1..MaxInterval)

\* The drift steps without their Update branches.
CreatePath(w) ==
  \/ GetGatewayPolicy(w)
  \/ CreateGatewayPolicy(w)
  \/ GetServiceAfterCreate(w)
  \/ GetService(w)
  \/ CreateService(w)

SweepStep ==
  \/ Sweeper
  \/ TimePasses
  \/ CreatePath("swp")
  \/ Sync("swp")
  \/ Allocator
  \/ Shutdown
  \/ Exit

SweepSpec == SweepInit /\ [][SweepStep]_vars

\* The two controllers of the process with the allocator, each scheduled
\* fairly: a worker that can take a step takes one.  Another writer may edit
\* the GatewayPolicy.  The sweeper is left to SweepSpec: with the
\* GatewayPolicy in place its drift steps reach no sync (part_000:136-160).
PolicyWorker == Reconciler \/ CreatePath("rec") \/ Sync("rec")

ServiceWorker == ServicesController \/ Sync("svc")

OtherWriter == \E key \in Keys, h \in Hosts : EditGatewayPolicy(key, h)

FairStep ==
  \/ PolicyWorker
  \/ ServiceWorker
  \/ Allocator
  \/ OtherWriter

FairSpec ==
  /\ Init
  /\ [][FairStep]_vars
  /\ WF_vars(PolicyWorker)
  /\ WF_vars(ServiceWorker)
  /\ WF_vars(Allocator)

\* The two controllers with a user who moves the Policy between target
\* namespaces by adding, changing or removing the annotation.
NamespaceStep ==
  \/ PolicyWorker
  \/ ServiceWorker
  \/ Allocator
  \/ \E p \in Policies, a \in {"", AltNamespace, EgressNamespace} :
       EditPolicyNamespace(p, a)

NamespaceSpec == Init /\ [][NamespaceStep]_vars

\* The owner-reference lists a watched object may carry: references to a
\* Policy or to something else, at most one of them a controller.
OwnerKinds == {PolicyKind, "Node"}

OwnerRefs == [kind : OwnerKinds, name : Policies, controller : BOOLEAN]

OwnerLists ==
  {o \in UNION {[1..n -> OwnerRefs] : n \in 0..MaxOwners} :
     Cardinality({i \in DOMAIN o : o[i].controller}) <= 1}

\* The router on its own: the store holds one GatewayPolicy and one Service
\* with any owner-reference list, and the delete event of either is routed.
RouterInit ==
  /\ policy = [p \in Policies |-> NewPolicy(p)]
  /\ \E o \in OwnerLists :
       gp = [k \in Keys |-> IF k = <<EgressNamespace, "p1">>
                            THEN [NoGP EXCEPT !.exists = TRUE, !.owner = o]
                            ELSE NoGP]
  /\ \E o \in OwnerLists :
       svc = [k \in Keys |-> IF k = <<EgressNamespace, "p1">>
                             THEN [NoService EXCEPT !.exists = TRUE,
                                                    !.namespace = k[1],
                                                    !.owner = o]
                             ELSE NoService]
  /\ events = {}
  /\ pc = [w \in Workers |-> "idle"]
  /\ loc = [w \in Workers |-> NoLocal]
  /\ recQ = {}
  /\ svcQ = {}
  /\ marker = NoMarker
  /\ interval = 1
  /\ ticker = 0
  /\ phase = "running"
  /\ used = [ext |-> 0, fail |-> 0, missed |-> FALSE]
  /\ last = NoStep
  /\ clean = AllDirty
  /\ synced = NoneSynced

RouterStep ==
  \/ \E key \in Keys : DeleteGatewayPolicy(key)
  \/ \E key \in Keys : DeleteService(key)

RouterSpec == RouterInit /\ [][RouterStep]_vars

\* ================================================================ claims
WriteOps == {"create", "update", "patch", "status"}

Foreign(obj, key) == obj.exists /\ ~IsControlledBy(obj, key[2])

\* The events of one step that concern the object d.
NewEventsAbout(d) == {e \in events' \ events : e.on = d \/ e.about = d}

OnlyWarningOnPolicy(d, p) ==
  \A e \in NewEventsAbout(d) : e.type = "Warning" /\ e.on = Pol(p)

\* C1 (as claimed): no step of Reconcile or of the sweeper for Policy P
\* changes a derived-name object that P does not control, and the only
\* thing such a step records about the object is a warning event on P.
C1_OwnershipSafety ==
  [][last'.w \in DriftWorkers =>
       \A key \in Keys :
         /\ Foreign(gp[key], key) =>
              gp'[key] = gp[key] /\ OnlyWarningOnPolicy(GP(key), key[2])
         /\ Foreign(svc[key], key) =>
              svc'[key] = svc[key] /\ OnlyWarningOnPolicy(Svc(key), key[2])]_vars

\* C2 (as claimed): a write of the GatewayPolicy made by the sync that
\* Reconcile calls, on a copy that another writer has overtaken, is not
\* applied; and the Reconcile that returns after such a rejected write asks
\* for a retry.
C2_StaleReadSafety ==
  /\ ~(last.w = "rec" /\ last.insync /\ last.kind = "gp"
       /\ last.op \in {"update", "patch"} /\ last.stale /\ last.ok)
  /\ (last.w = "rec" /\ last.op = "return" /\ last.conflict)
       => (last.requeue \/ last.err)

\* C4: a drift run for a Policy that starts when an earlier drift run for it
\* has completed, with the store as that run left it, issues no Create,
\* Update or Patch.
C4_DriftIdempotent ==
  ~(last.w \in DriftWorkers /\ last.again /\ last.op \in WriteOps)

\* C4's case: a second drift run returned, the Policy's objects in place.
C4_Witness ==
  /\ last.w = "rec" /\ last.op = "return" /\ last.again /\ ~last.err
  /\ gp[last.key].exists /\ IsControlledBy(gp[last.key], "p1")
  /\ gp[last.key].host = "n1"
  /\ svc[last.key].exists /\ IsControlledBy(svc[last.key], "p1")

\* C5 (as claimed): a sync called with the Service state a completed sync
\* was called with, the store unchanged since, issues no write, whatever
\* GatewayPolicy argument the caller holds.
C5_SyncIdempotent ==
  ~(last.insync /\ last.sagain /\ last.op \in WriteOps)

SpecPart(pol) ==
  [exists |-> pol.exists, name |-> pol.name, ann |-> pol.ann, sel |-> pol.sel,
   host |-> pol.host, ip |-> pol.ip]

\* C9: no step of the controller changes anything of a Policy but the
\* address, the exit node and the last-modified stamp of its status.
C9_PolicyFrame ==
  [][last'.w \in Workers =>
       \A p \in Policies : SpecPart(policy'[p]) = SpecPart(policy[p])]_vars

\* C9's case: the controller wrote the status of a Policy that the user had
\* edited before.
C9_Witness ==
  /\ last.w \in Workers /\ last.op = "status" /\ last.ok
  /\ policy["p1"].sel = "s2" /\ policy["p1"].addr = Address
  /\ policy["p1"].node = "n1"

\* C10 (as claimed): a Reconcile in whose drift steps a store call failed
\* returns an error and a requeue delay.
C10_ErrorPropagation ==
  (last.w = "rec" /\ last.op = "return" /\ last.failed) =>
    (last.err /\ last.requeue)

\* C6 (as claimed): a tick on which the marker is younger than half the
\* interval reads nothing from the store: it lists no Policies.
C6_ThrottleSkip ==
  (last.op = "tick" /\ last.age # NoMarker
     /\ last.age < HalfInterval(interval)) => last.did = "skip"

\* C7 (as claimed): a tick with no marker, or with a marker at least half
\* the interval old, lists the Policies and runs the drift steps on each.
C7_ThrottleRunAsClaimed ==
  (last.op = "tick"
     /\ (last.age = NoMarker \/ last.age >= HalfInterval(interval)))
    => last.did = "run"

\* C7 (amended): a tick with a recorded marker at least half the interval
\* old issues the List; when the List succeeds the loop takes every listed
\* Policy, and runs both drift steps on each of them before it ends.
C7_ThrottleRun ==
  /\ (last.op = "tick" /\ last.age # NoMarker
        /\ last.age >= HalfInterval(interval))
       => (last.did = "run" /\ pc["swp"] = "tList")
  /\ (last.op = "list" /\ last.ok)
       => last.listed = {p \in Policies : policy[p].exists}
  /\ last.op = "swept" => last.steps = {"gp", "svc"}
  /\ (last.op = "swept" /\ last.did = "end") => last.visited = last.listed

\* C7's case: a sweep started by a tick has taken both Policies.
C7_Witness ==
  /\ last.op = "swept" /\ last.did = "end"
  /\ last.visited = {"p1", "p2"}
  /\ \A p \in Policies : gp[DerivedKey(policy[p])].exists
                         /\ svc[DerivedKey(policy[p])].exists

\* C8 (as claimed): after the shutdown signal no tick starts a sweep.
C8_SweeperCancellation ==
  ~(last.op = "tick" /\ last.stopping /\ last.did = "run")

Assigned(key) ==
  /\ svc[key].exists /\ IsControlledBy(svc[key], key[2])
  /\ svc[key].ingress = <<Address>> /\ svc[key].host = "n1"

Converged(key) ==
  /\ gp[key].exists /\ gp[key].host = "n1" /\ gp[key].ip = Address
  /\ policy[key[2]].addr = Address /\ policy[key[2]].node = "n1"

\* C3 (as claimed): once the Service of a Policy carries the address and the
\* current host, the GatewayPolicy and the Policy's status eventually carry
\* them too, and keep them.
C3_Convergence ==
  \A key \in Keys : <>[](Assigned(key) => Converged(key))

\* C11: a Reconcile that found the GatewayPolicy of the derived name
\* controlled by somebody else went on to the Service step, and when no
\* store call of the run failed it returns no error and asks for no requeue.
C11_ForeignIsNoError ==
  (last.w = "rec" /\ last.op = "return" /\ last.foreign)
    => /\ "svc" \in last.steps
       /\ ~last.failed => (~last.err /\ ~last.requeue)

\* C11's case: such a Reconcile returned, and the Service it went on to
\* create is in the store.
C11_Witness ==
  /\ last.w = "rec" /\ last.op = "return" /\ last.foreign /\ ~last.failed
  /\ Foreign(gp[last.key], last.key)
  /\ svc[last.key].exists /\ IsControlledBy(svc[last.key], "p1")

\* C12: the Get of a Reconcile whose Policy is not in the store, and the
\* return that follows it, change no stored object, record no event and
\* leave the last-activity marker alone; the return carries no error, asks
\* for no requeue and puts no request back.
C12_MissingPolicy ==
  [][(last'.w = "rec" /\ last'.missing)
       => /\ UNCHANGED <<policy, gp, svc, events, marker>>
          /\ last'.op = "return"
               => (~last'.err /\ ~last'.requeue /\ last'.steps = {}
                   /\ recQ' = recQ)]_vars

\* C12's case: a Reconcile returned for a Policy the user had deleted,
\* while the objects derived from it are still in the store.
C12_Witness ==
  /\ last.w = "rec" /\ last.op = "return" /\ last.missing
  /\ ~policy["p1"].exists
  /\ gp[<<EgressNamespace, "p1">>].exists

\* C13: a create, update or patch of a GatewayPolicy or a Service, by the
\* controller or by anybody else, puts no reconcile request in the queue;
\* the delete of one puts in a request for every Policy that its owner
\* references name.
C13_OnlyDeleteRoutes ==
  [][/\ (last'.kind \in {"gp", "svc"} /\ last'.op \in {"create", "update", "patch"})
         => recQ' = recQ
     /\ (last'.kind = "gp" /\ last'.op = "delete")
         => \A o \in Range(PolicyOwners(gp[last'.key])) : o.name \in recQ'
     /\ (last'.kind = "svc" /\ last'.op = "delete")
         => \A o \in Range(PolicyOwners(svc[last'.key])) : o.name \in recQ']_vars

\* C13's case: the Reconcile worker has just patched the GatewayPolicy it
\* controls, and no request for the owning Policy is queued.
C13_Witness ==
  /\ last.w = "rec" /\ last.op = "patch" /\ last.ok
  /\ IsControlledBy(gp[last.key], "p1")
  /\ gp[last.key].host = "n1"
  /\ recQ = {}

\* The namespace of a Policy: the Policy is cluster-scoped.
PolicyNamespace == ""

\* C14: for the owner-reference list of the object handed to it, the router
\* returns no request when no reference is of kind Policy, and otherwise
\* exactly one request, with the name of the first such reference and the
\* namespace of the Policy.
C14_RouterResult ==
  (last.op = "delete" /\ last.kind \in {"gp", "svc"})
    => LET own == SelectSeq(last.owners, LAMBDA ref : ref.kind = PolicyKind)
       IN IF Len(own) = 0
          THEN last.requests = <<>>
          ELSE /\ Len(last.requests) = 1
               /\ last.requests[1].name = own[1].name
               /\ last.requests[1].namespace = PolicyNamespace

\* C15: a successful Update of an existing Service by the Service drift step
\* changes the selector of the stored Service and no other field of it.
C15_ServiceUpdateFrame ==
  [][(last'.w \in DriftWorkers /\ last'.kind = "svc" /\ last'.op = "update"
      /\ last'.ok)
       => svc'[last'.key] =
            [svc[last'.key] EXCEPT !.selector = svc'[last'.key].selector]]_vars

\* C16: for an existing GatewayPolicy that the Policy controls, the drift
\* step goes on to its Update only when the Selectors differ, and a
\* successful Update changes the Selectors of the stored object and no other
\* field of it: the node selector and the address stay as they were.
C16_SelectorsOnly ==
  [][/\ (last'.w \in DriftWorkers /\ last'.kind = "gp" /\ last'.op = "update"
         /\ ~last'.insync /\ last'.ok)
          => gp'[last'.key] =
               [gp[last'.key] EXCEPT !.sel = gp'[last'.key].sel]
     /\ \A w \in DriftWorkers :
          (pc[w] = "gGet" /\ pc'[w] = "gUpdate")
            => /\ IsControlledBy(gp[last'.key], loc'[w].p)
               /\ gp[last'.key].sel # loc'[w].pol.sel]_vars

\* C16's case: the drift step has updated the Selectors of a GatewayPolicy
\* whose node selector and address the sync had set, and which differ from
\* what the Policy's spec holds.
C16_Witness ==
  /\ last.w = "rec" /\ last.kind = "gp" /\ last.op = "update" /\ last.ok
  /\ ~last.insync
  /\ gp[last.key].sel = "s2"
  /\ gp[last.key].host = "n1" /\ gp[last.key].ip = Address
  /\ policy["p1"].host = "" /\ policy["p1"].ip = ""

\* C17: no store call of the sweeper is a call of the sync
\* (SyncServiceWithCiliumEgressGatewayPolicy).
C17_SweeperNeverSyncs == ~(last.w = "swp" /\ last.insync)

\* C18: when a drift step that created the GatewayPolicy and found the
\* Service with an address and a current host is about to return from the
\* sync, with no store call of the run failed and no other writer at work
\* since the sync began, the stored GatewayPolicy has that address and that
\* host as its node selector.
C18_CreatedThenSynced ==
  \A w \in DriftWorkers :
    LET l == loc[w]
    IN (pc[w] = "sRet" /\ l.insync /\ ~l.failed /\ l.squiet
        /\ HasIngress(l) /\ CurrentHost(l) # "")
         => /\ gp[l.key].exists
            /\ gp[l.key].ip = IngressIP(l)
            /\ gp[l.key].host = CurrentHost(l)

\* C18's case: the Reconcile worker created the GatewayPolicy of p1 again
\* while the Service had address a1 and host n1, and its sync is done.
C18_Witness ==
  LET l == loc["rec"]
  IN /\ pc["rec"] = "sRet" /\ l.insync /\ ~l.failed /\ l.squiet
     /\ l.service.ingress = <<Address>> /\ l.service.host = "n1"
     /\ IsControlledBy(gp[l.key], "p1")
     /\ gp[l.key].ip = Address /\ gp[l.key].host = "n1"

\* The derived names under which a stored object carries an owner reference
\* to the Policy p.
OwnedKeys(store, p) ==
  {k \in Keys : store[k].exists
                /\ \E o \in Range(PolicyOwners(store[k])) : o.name = p}

\* C19: for every Policy, at most one stored GatewayPolicy and at most one
\* stored Service carry an owner reference to it.
C19_OneDerivedObject ==
  \A p \in Policies :
    /\ Cardinality(OwnedKeys(gp, p)) <= 1
    /\ Cardinality(OwnedKeys(svc, p)) <= 1

\* An event that tells of the write op of the object d: "Created" for a
\* create, "Updated" or "EgressUpdate" for an update or a patch.
Recorded(evs, op, d) ==
  \E e \in evs :
    /\ e.on = d \/ e.about = d
    /\ e.type = "Normal"
    /\ IF op = "create" THEN e.reason = "Created"
       ELSE e.reason \in {"Updated", "EgressUpdate"}

\* C20: after every successful create, update or patch of a GatewayPolicy or
\* a Service by a worker of the controller, the recorder holds an event that
\* tells of that write of that object.
C20_WritesHaveEvents ==
  [][(last'.w \in Workers /\ last'.kind \in {"gp", "svc"}
      /\ last'.op \in {"create", "update", "patch"} /\ last'.ok)
       => Recorded(events', last'.op, <<last'.kind, last'.key>>)]_vars

\* C21: a sync in which a write of the Policy status failed has still
\* attempted the patch of the node selector when the current host is set and
\* differs from the node selector it was handed; and a later sync, in which
\* no call fails and no other writer interferes, returns with the address
\* and the exit node of the Service it read in the status of the Policy.
C21_StatusFailureGoesOn ==
  /\ (last.op = "syncreturn" /\ last.missed /\ last.host # ""
      /\ last.policyHost # last.host)
       => last.tried
  /\ (last.op = "syncreturn" /\ last.before /\ ~last.missed /\ ~last.failed
      /\ last.quiet /\ last.ingress # <<>>)
       => /\ policy[last.key[2]].addr = last.ingress[1]
          /\ last.host # "" => policy[last.key[2]].node = last.host

\* C21's case: a sync whose status write failed went on to patch the node
\* selector of the stored GatewayPolicy.
C21_Witness ==
  /\ last.op = "syncreturn" /\ last.missed /\ last.tried
  /\ last.host = "n1" /\ gp[last.key].host = "n1"
  /\ policy["p1"].node # "n1"

\* C21's second case: a later sync has written the status that an earlier
\* one had missed.
C21_Later ==
  /\ last.op = "syncreturn" /\ last.before /\ ~last.missed /\ ~last.failed
  /\ last.quiet /\ last.host = "n1"
  /\ policy["p1"].addr = Address /\ policy["p1"].node = "n1"

\* C22 (as claimed): a sync called with a Service whose current host is
\* empty returns no error and asks for no requeue, and has attempted neither
\* the exit-node write nor the patch, and recorded no update event.
C22_UnclaimedAsClaimed ==
  (last.op = "syncreturn" /\ last.host = "")
    => /\ ~last.err /\ ~last.requeue
       /\ ~last.tried
       /\ last.marks \cap {"statusNode", "events"} = {}

\* C22: a sync called with a Service whose current host is empty has
\* attempted neither the exit-node write nor the patch and recorded no
\* update event; it returns no error and asks for no requeue unless the
\* fresh Get or the address Update of the GatewayPolicy failed.
C22_Unclaimed ==
  (last.op = "syncreturn" /\ last.host = "")
    => /\ ~last.tried
       /\ last.marks \cap {"statusNode", "events"} = {}
       /\ last.marks \cap {"getFailed", "updateFailed"} = {}
            => (~last.err /\ ~last.requeue)

\* C22's case: a sync with an address and no current host has written the
\* address into the GatewayPolicy and the status, and returned.
C22_Witness ==
  /\ last.op = "syncreturn" /\ last.host = "" /\ last.ingress = <<Address>>
  /\ {"address", "statusAddress"} \subseteq last.marks
  /\ ~last.err /\ ~last.requeue
  /\ gp[last.key].ip = Address /\ gp[last.key].host = ""
  /\ policy["p1"].addr = Address /\ policy["p1"].node = ""

\* The positions of a worker inside the sync, before its return.
SyncStages == {"sPol", "sFresh", "sAddr", "sStatA", "sStatN", "sPatch"}

\* C23: at the step with which a sync ends its work with no error, no
\* requeue and no failed store call, for a Service whose current host is not
\* empty, the stored GatewayPolicy has that host as its node selector.
C23_SyncPostcondition ==
  [][\A w \in Workers :
       (/\ pc[w] \in SyncStages /\ pc'[w] = "sRet"
        /\ loc'[w].sres = NoResult /\ ~loc'[w].sfailed
        /\ CurrentHost(loc'[w]) # "")
         => gp'[loc'[w].key].host = CurrentHost(loc'[w])]_vars

\* C24: no sync writes into the GatewayPolicy or into the status of the
\* Policy from a Service that the Policy does not control.
C24_NoForeignFeedback ==
  \A w \in Workers :
    (last.w = w /\ last.insync /\ last.ok /\ last.op \in WriteOps
     /\ last.kind \in {"gp", "pol"})
      => IsControlledBy(loc[w].service, loc[w].p)

\* C25: a Create of a derived object that failed records no "Created"
\* event on the Policy.
C25_CreatedImpliesCreation ==
  [][(last'.w \in Workers /\ last'.op = "create" /\ ~last'.ok)
       => \A e \in events' \ events : e.reason # "Created"]_vars

====
